---- MODULE Spec2Model ----
(***************************************************************************)
(* The asynchronous render-cache pipeline of the cocktail model gallery:   *)
(* ModelGalleryItemDelegate (pixmap cache, image cache, pending loads),    *)
(* AsyncImageLoader / ImageWorker (the scaling thread) and the view-level  *)
(* callers that invalidate the caches.                                     *)
(*                                                                         *)
(* Python strings are sequences of one-character strings, so that the      *)
(* f-string keys, str.split and the `in` substring test are computed as    *)
(* the code computes them.                                                 *)
(***************************************************************************)
EXTENDS Integers, Sequences, FiniteSets, TLC

(***************************************************************************)
(* Program constants.                                                      *)
(***************************************************************************)
\* delegate.py:238  self._max_cache_size = 200
max_cache_size == 200
\* delegate.py:239  self._max_image_cache_size = 100
max_image_cache_size == 100
\* delegate.py:345  list(self._pixmap_cache.keys())[:20]
evict_batch == 20
\* delegate.py:56  target_size.width() > 400 or target_size.height() > 400
smooth_threshold == 400
\* modulus of CPython's hash() of an int on a build with 31 hash bits
\* (2^31 - 1); delegate.py:264 passes QImage.cacheKey() through hash()
PyHashModulus == 2147483647

(***************************************************************************)
(* Bounds of the model.                                                    *)
(***************************************************************************)
\* jobs handed to the worker plus completions not yet applied
MaxOutstanding == 2
\* rows of the growing gallery of SpecBulk
MaxRows == 102

(***************************************************************************)
(* Python strings.                                                         *)
(***************************************************************************)
DigitChar(d) == <<"0", "1", "2", "3", "4", "5", "6", "7", "8", "9">>[d + 1]

RECURSIVE NatStr(_)
NatStr(n) == IF n < 10 THEN <<DigitChar(n)>>
             ELSE NatStr(n \div 10) \o <<DigitChar(n % 10)>>

\* str(int) as an f-string renders it
IntStr(n) == IF n < 0 THEN <<"-">> \o NatStr(0 - n) ELSE NatStr(n)

\* str(bool)
BoolStr(b) == IF b THEN <<"T", "r", "u", "e">> ELSE <<"F", "a", "l", "s", "e">>

\* sub in s
Contains(sub, s) ==
    \E i \in 0..(Len(s) - Len(sub)) : SubSeq(s, i + 1, i + Len(sub)) = sub

\* s.split('_', 1)[1]: what follows the first underscore
SplitTail(s) ==
    LET first == CHOOSE i \in 1..Len(s) :
                     /\ s[i] = "_"
                     /\ \A j \in 1..(i - 1) : s[j] # "_"
    IN  SubSeq(s, first + 1, Len(s))

\* hash(n) of a Python int
PyHash(n) ==
    LET m == (IF n < 0 THEN 0 - n ELSE n) % PyHashModulus
        r == IF n < 0 THEN 0 - m ELSE m
    IN  IF r = -1 THEN -2 ELSE r

(***************************************************************************)
(* Images.  kind is "none" (index.data returned None), "null" (a null      *)
(* QImage), "raw" (a decoded image of the data source), "scaled" (the      *)
(* result of QImage.scaled; fp then records the fingerprint of the image   *)
(* it was scaled from), "loading" and "error" (the widget's placeholders). *)
(***************************************************************************)
NoneImage == [kind |-> "none", fp |-> 0, w |-> 0, h |-> 0]
NullImage == [kind |-> "null", fp |-> 0, w |-> 0, h |-> 0]
RawImage(fp, w, h) == [kind |-> "raw", fp |-> fp, w |-> w, h |-> h]

\* image and not image.isNull()
IsValid(image) == image.kind \notin {"none", "null"}

\* QImage.scaled(target, KeepAspectRatio, mode): the largest size of the
\* image's aspect ratio inside target; the transformation mode changes the
\* pixels, not the size
Scaled(image, target, mode) ==
    IF target[1] * image.h <= target[2] * image.w
    THEN [kind |-> "scaled", fp |-> image.fp, mode |-> mode,
          w |-> target[1], h |-> (target[1] * image.h) \div image.w]
    ELSE [kind |-> "scaled", fp |-> image.fp, mode |-> mode,
          w |-> (target[2] * image.w) \div image.h, h |-> target[2]]

\* the transformation mode processImage picks (delegate.py:56-69)
TransformationMode(target) ==
    IF target[1] > smooth_threshold \/ target[2] > smooth_threshold
    THEN "smooth" ELSE "fast"

\* ItemRenderWidget.setLoadingState: the 200 x 200 placeholder
LoadingPlaceholder == [kind |-> "loading", fp |-> 0, w |-> 200, h |-> 200]

\* ItemRenderWidget._error_image scaled to half the widget's width
ErrorImage(size) == [kind |-> "error", fp |-> 0,
                     w |-> size[1] \div 2, h |-> size[1] \div 2]

(***************************************************************************)
(* The data source: the rows of the gallery model.  name and type are      *)
(* Python strings, image is the DecorationRole value.                      *)
(***************************************************************************)
Row(name, type, image) == [name |-> name, type |-> type, image |-> image]

\* the gallery of Spec: an item with a decoded image, one without
SmallModel ==
    << Row(<<"a">>, <<"L">>, RawImage(7, 512, 768)),
       Row(<<"c">>, <<"L">>, NullImage) >>

\* the item sizes of the model: the delegate's initial size (delegate.py:234)
\* and a grid size ImageGalleryListView.calculateGridSize produces
\* (width 200, height floor(200 * 1.5))
InitialSize == <<450, 650>>
Sizes == {InitialSize, <<200, 300>>}

VARIABLES
    model,          \* rows of the data source
    item_size,      \* ModelGalleryItemDelegate._item_size
    pixmap_cache,   \* _pixmap_cache: a dict in insertion order, as a sequence
    image_cache,    \* _image_cache: a dict, iterated nowhere, as a function
    pending_loads,  \* _pending_loads: its keys
    jobs,           \* processImage calls queued to the worker thread
    done,           \* imageLoaded emissions queued to the consumer thread
    window,         \* history: per image key, the paint requests and the jobs
                    \* dispatched since the last completion or invalidation
    painted,        \* history: the rows painted since the last setItemSize
    view,           \* ImageGalleryListView: items per row, viewport width,
                    \* grid size and the cache of calculateGridSize
    db              \* DatabaseController, its view, its provider and its
                    \* worker thread

\* the program's state
state == <<model, item_size, pixmap_cache, image_cache, pending_loads, jobs, done>>

vars == <<model, item_size, pixmap_cache, image_cache, pending_loads, jobs, done,
          window, painted, view, db>>

(***************************************************************************)
(* ImageGalleryListView: the grid size.                                    *)
(***************************************************************************)
\* self._items_per_row after __init__
default_items_per_row == 5

\* calculateGridSize: the least item width
min_item_width == 200

\* calculateGridSize: a viewport width less than this away from the cached
\* one is served from the cache
cache_tolerance == 10

\* resizeEvent: a width change of more than this updates the grid size
resize_threshold == 50

\* QSize(): an invalid size, which isEmpty
EmptySize == <<-1, -1>>

\* QSize.isEmpty
IsEmpty(size) == size[1] <= 0 \/ size[2] <= 0

Abs(n) == IF n < 0 THEN -n ELSE n

\* the view after ImageGalleryListView.__init__, at a viewport width (less
\* the contents margins) of 1000
InitialView ==
    [items_per_row |-> default_items_per_row,
     viewport_width |-> 1000,
     grid_size |-> InitialSize,
     cached_grid_size |-> EmptySize,
     cached_viewport_width |-> 0]

\* view.py:88-92: width = max(floor(viewport_width / items_per_row) * 0.99,
\* 200), height = floor(width * 1.5), both truncated to int
ComputedGridSize(viewport_width, items_per_row) ==
    LET width == viewport_width \div items_per_row
    IN  IF 99 * width > 100 * min_item_width
        THEN <<(99 * width) \div 100, (297 * width) \div 200>>
        ELSE <<min_item_width, (3 * min_item_width) \div 2>>

\* calculateGridSize of view v: the size it returns and the view it leaves
calculateGridSize(v) ==
    IF /\ Abs(v.viewport_width - v.cached_viewport_width) < cache_tolerance
       /\ ~IsEmpty(v.cached_grid_size)
    THEN [size |-> v.cached_grid_size, view |-> v]
    ELSE LET grid_size == ComputedGridSize(v.viewport_width, v.items_per_row)
         IN  [size |-> grid_size,
              view |-> [v EXCEPT !.cached_grid_size = grid_size,
                                 !.cached_viewport_width = v.viewport_width]]

(***************************************************************************)
(* DatabaseController and DatabaseWorker.  db is a record: the update      *)
(* button of the view, the provider's running requests and its page queue, *)
(* the calls queued to the worker thread, the worker's signals queued to   *)
(* the controller's thread, the throttle timer, and the history the claims *)
(* need (pages handed and processed, timestamps written, updates started   *)
(* and ended, emissions of dataUpdated since the timer was started).       *)
(***************************************************************************)
\* the pages the provider delivers in all
MaxPages == 2

\* the calls of updateModelData in all
MaxUpdates == 2

\* the state after DatabaseController.__init__; the Database tab is not the
\* current tab, and the delayed automatic update of start() is armed
InitialController ==
    [update_enabled |-> TRUE,
     visible |-> FALSE,
     auto_update |-> TRUE,
     requests |-> 0,
     pages_read |-> 0,
     queue |-> <<>>,
     calls |-> <<>>,
     signals |-> <<>>,
     pending_updates |-> 0,
     timer_active |-> FALSE,
     handed |-> <<>>,
     processed |-> <<>>,
     stamps |-> <<>>,
     started |-> 0,
     ended |-> 0,
     period_emits |-> 0]

\* DatabaseView.setUpdateInProgress(flag): the update button is enabled
\* when no update is in progress
setUpdateInProgress(d, flag) == [d EXCEPT !.update_enabled = ~flag]

\* ModelDataProvider.requestModelData: one more request is running
requestModelData(d) == [d EXCEPT !.requests = @ + 1]

\* the provider puts the next page in its queue before it emits pageReady
providerPage(d) ==
    [d EXCEPT !.pages_read = @ + 1, !.queue = Append(@, d.pages_read + 1)]

\* the provider emits endRequest: the request is over
providerEnd(d) == [d EXCEPT !.requests = @ - 1]

\* DatabaseController.updateModelData
updateModelData(d) ==
    [requestModelData(setUpdateInProgress(d, TRUE)) EXCEPT !.started = @ + 1]

\* DatabaseController.onPageReady: the page is queued to the worker thread
\* and the throttle timer is started when it is not running
onPageReady(d) ==
    [d EXCEPT !.queue = Tail(@),
              !.calls = Append(@, [op |-> "insertPage", page |-> Head(d.queue),
                                   after |-> Len(d.handed)]),
              !.handed = Append(@, Head(d.queue)),
              !.pending_updates = @ + 1,
              !.timer_active = TRUE,
              !.period_emits = IF d.timer_active THEN @ ELSE 0]

\* DatabaseController._emitDataUpdated, the timer's timeout slot
emitDataUpdated(d) ==
    IF d.pending_updates > 0
    THEN [d EXCEPT !.pending_updates = 0,
                   !.period_emits = IF d.visible THEN @ + 1 ELSE @]
    ELSE d

\* mutant: onProviderUpdateEnd invoking setLastUpdated ahead of the calls
\* already queued to the worker
onProviderUpdateEndAhead(d) ==
    [d EXCEPT !.calls = <<[op |-> "setLastUpdated", page |-> 0,
                           after |-> Len(d.handed)]>> \o @]

\* DatabaseController.onProviderUpdateEnd: setLastUpdated is queued to the
\* worker thread, behind the calls queued before it
onProviderUpdateEnd(d) ==
    [d EXCEPT !.calls = Append(@, [op |-> "setLastUpdated", page |-> 0,
                                   after |-> Len(d.handed)])]

\* DatabaseWorker.insertPage(page); failed says whether the connection
\* could not be opened or insert_page raised
insertPage(d, page, failed) ==
    [d EXCEPT !.processed = Append(@, page),
              !.signals = Append(@, IF failed THEN "error" ELSE "dataUpdated")]

\* DatabaseWorker.setLastUpdated for the call queued by
\* onProviderUpdateEnd after `after` pages had been handed over
setLastUpdated(d, after, failed) ==
    IF failed
    THEN [d EXCEPT !.signals = Append(@, "error")]
    ELSE [d EXCEPT !.stamps = Append(@, [after |-> after,
                                         processed |-> Len(d.processed)]),
                   !.signals = Append(@, "finished")]

\* the worker thread's event loop runs the oldest queued call
workerCall(d, failed) ==
    LET call == Head(d.calls)
        rest == [d EXCEPT !.calls = Tail(@)]
    IN  IF call.op = "insertPage"
        THEN insertPage(rest, call.page, failed)
        ELSE setLastUpdated(rest, call.after, failed)

\* worker.dataUpdated is connected to the controller's dataUpdated.emit
relayDataUpdated(d) == [d EXCEPT !.period_emits = @ + 1]

\* DatabaseController.onUpdateEnd: the update is over, updateComplete is
\* emitted, and a final dataUpdated
onUpdateEnd(d) == [setUpdateInProgress(d, FALSE) EXCEPT !.ended = @ + 1]

\* DatabaseController.onDatabaseError
onDatabaseError(d) == setUpdateInProgress(d, FALSE)

\* the controller's thread delivers the oldest queued signal of the worker
workerSignal(d) ==
    LET signal == Head(d.signals)
        rest == [d EXCEPT !.signals = Tail(@)]
    IN  IF signal = "dataUpdated" THEN relayDataUpdated(rest)
        ELSE IF signal = "finished" THEN onUpdateEnd(rest)
        ELSE onDatabaseError(rest)

(***************************************************************************)
(* ModelGalleryItemDelegate: the keys.                                     *)
(***************************************************************************)
\* image_key = hash(image.cacheKey()) if image and not image.isNull()
\*             else "no_image"
ImageKeyStr(image) ==
    IF IsValid(image) THEN IntStr(PyHash(image.fp))
    ELSE <<"n", "o", "_", "i", "m", "a", "g", "e">>

\* mutant: a pixmap key derived from the image the widget would show rather
\* than from the item's own image: it reads the image cache
getCacheKeyOfShown(row, selected, size) ==
    row.name \o <<"_">> \o row.type \o <<"_">>
        \o (IF (<<"i", "m", "g", "_">> \o ImageKeyStr(row.image) \o <<"_">>
                   \o IntStr(size[1]) \o <<"_">> \o IntStr(size[2]))
                  \in DOMAIN image_cache
            THEN <<"c", "a", "c", "h", "e", "d">>
            ELSE ImageKeyStr(row.image))
        \o <<"_">> \o BoolStr(selected)
        \o <<"_">> \o IntStr(size[1]) \o <<"_">> \o IntStr(size[2])

\* _getCacheKey: f"{name}_{model_type}_{image_key}_{selected}_{w}_{h}"
getCacheKey(row, selected, size) ==
    row.name \o <<"_">> \o row.type \o <<"_">> \o ImageKeyStr(row.image)
        \o <<"_">> \o BoolStr(selected)
        \o <<"_">> \o IntStr(size[1]) \o <<"_">> \o IntStr(size[2])

\* mutant: an image key that leaves the item size out
getImageCacheKeyNoSize(row, size) ==
    <<"i", "m", "g", "_">> \o ImageKeyStr(row.image)

\* _getImageCacheKey: f"img_{image_key}_{w}_{h}"
getImageCacheKey(row, size) ==
    <<"i", "m", "g", "_">> \o ImageKeyStr(row.image)
        \o <<"_">> \o IntStr(size[1]) \o <<"_">> \o IntStr(size[2])

PixmapKeys == {pixmap_cache[n].key : n \in 1..Len(pixmap_cache)}

\* self._pixmap_cache[cache_key]
PixmapAt(key) ==
    pixmap_cache[CHOOSE n \in 1..Len(pixmap_cache) : pixmap_cache[n].key = key].pixmap

\* d[key] = value on a dict kept as a function
DictPut(d, key, value) ==
    [k \in (DOMAIN d) \cup {key} |-> IF k = key THEN value ELSE d[k]]

EmptyDict == [k \in {} |-> NullImage]

(***************************************************************************)
(* ItemRenderWidget.  paint writes every field _getDisplayImage reads      *)
(* before it renders, so the widget is a value local to one paint,         *)
(* starting from the constructor's state.                                  *)
(***************************************************************************)
NewWidget == [image |-> NullImage, is_loading |-> FALSE,
              loading_placeholder |-> FALSE, scaled_image_cache |-> FALSE]

\* setImage
setImage(wd, image) ==
    IF wd.image # image
    THEN [wd EXCEPT !.image = image, !.scaled_image_cache = FALSE,
                    !.is_loading = FALSE]
    ELSE wd

\* setLoadingState
setLoadingState(wd, loading) ==
    [wd EXCEPT !.is_loading = loading,
               !.loading_placeholder = wd.loading_placeholder \/ loading]

\* _getDisplayImage; _scaled_image_cache is written by setScaledImage
\* alone, which the delegate never calls, so it is None throughout
getDisplayImage(wd, size) ==
    IF wd.is_loading /\ wd.loading_placeholder THEN LoadingPlaceholder
    ELSE IF ~IsValid(wd.image) THEN ErrorImage(size)
    ELSE wd.image

(***************************************************************************)
(* ModelGalleryItemDelegate.paint.                                         *)
(***************************************************************************)
\* the target size paint computes for the scale job (delegate.py:317-324)
TargetSize(image, size) ==
    LET width == IF image.h > 0 THEN (size[2] * image.w) \div image.h
                 ELSE size[2]
    IN  IF width < size[1]
        THEN <<size[1], IF image.h > 0 THEN (size[1] * image.h) \div image.w
                        ELSE size[1]>>
        ELSE <<width, size[2]>>

\* mutant: the branch taken when the in-flight check of delegate.py:310 is
\* left out
PaintBranchNoDedup(row) ==
    LET image_cache_key == getImageCacheKey(row, item_size)
    IN  IF image_cache_key \in DOMAIN image_cache THEN "cached"
        ELSE IF IsValid(row.image) THEN "start"
        ELSE "original"

\* mutant: the branch taken when the test `image and not image.isNull()` of
\* delegate.py:310 is left out
PaintBranchNoValidity(row) ==
    LET image_cache_key == getImageCacheKey(row, item_size)
    IN  IF image_cache_key \in DOMAIN image_cache THEN "cached"
        ELSE IF image_cache_key \notin pending_loads THEN "start"
        ELSE "original"

\* mutant: a paint that keeps a record of the items it has painted and, for
\* an item painted before, neither looks the processed image up nor
\* dispatches a job
PaintBranchSeenBefore(row) ==
    LET image_cache_key == getImageCacheKey(row, item_size)
    IN  IF row \in {model[i] : i \in painted} THEN "original"
        ELSE IF image_cache_key \in DOMAIN image_cache THEN "cached"
        ELSE IF IsValid(row.image) /\ image_cache_key \notin pending_loads
             THEN "start"
        ELSE "original"

\* which branch of delegate.py:306-329 a paint of row takes
PaintBranch(row) ==
    LET image_cache_key == getImageCacheKey(row, item_size)
    IN  IF image_cache_key \in DOMAIN image_cache THEN "cached"
        ELSE IF IsValid(row.image) /\ image_cache_key \notin pending_loads
             THEN "start"
        ELSE "original"

\* the widget after the branch has set it up (delegate.py:306-331)
PaintWidget(row) ==
    LET image_cache_key == getImageCacheKey(row, item_size)
        branch == PaintBranch(row)
    IN  IF branch = "cached"
        THEN setLoadingState(setImage(NewWidget, image_cache[image_cache_key]), FALSE)
        ELSE IF branch = "start"
        THEN setLoadingState(setImage(NewWidget, row.image), TRUE)
        ELSE setLoadingState(setImage(NewWidget, row.image), FALSE)

\* the pixmap self._widget.render produces (delegate.py:331-340)
Render(row, selected) ==
    [name |-> row.name, type |-> row.type, selected |-> selected,
     size |-> item_size, shown |-> getDisplayImage(PaintWidget(row), item_size)]

\* the pixmap paint draws for (row, selected) in the current state: the
\* cached one on a hit (delegate.py:293-296), a fresh render otherwise
PaintResult(row, selected) ==
    LET cache_key == getCacheKey(row, selected, item_size)
    IN  IF cache_key \in PixmapKeys THEN PixmapAt(cache_key)
        ELSE Render(row, selected)

\* mutant: the eviction with > in place of >= at delegate.py:343
EvictedLate(cache) ==
    IF Len(cache) > max_cache_size
    THEN SubSeq(cache, evict_batch + 1, Len(cache))
    ELSE cache

\* mutant: an eviction that removes the oldest entry alone
EvictedOne(cache) ==
    IF Len(cache) >= max_cache_size
    THEN SubSeq(cache, 2, Len(cache))
    ELSE cache

\* the entries left after the eviction of delegate.py:343-347
Evicted(cache) ==
    IF Len(cache) >= max_cache_size
    THEN SubSeq(cache, evict_batch + 1, Len(cache))
    ELSE cache

\* paint on a pixmap cache miss (delegate.py:298-352): set the widget up,
\* dispatch the scale job if one is needed, render, evict, cache
paintMiss(row, selected) ==
    LET cache_key == getCacheKey(row, selected, item_size)
        image_cache_key == getImageCacheKey(row, item_size)
    IN  /\ IF PaintBranch(row) = "start"
           THEN /\ pending_loads' = pending_loads \cup {image_cache_key}
                /\ jobs' = Append(jobs, [key |-> image_cache_key,
                                         image |-> row.image,
                                         target |-> TargetSize(row.image, item_size)])
           ELSE UNCHANGED <<pending_loads, jobs>>
        /\ pixmap_cache' = Append(Evicted(pixmap_cache),
                                  [key |-> cache_key,
                                   pixmap |-> Render(row, selected)])
        /\ UNCHANGED <<model, item_size, image_cache, done>>

\* mutant: a paint that scales synchronously, so that a miss waits until
\* the worker has nothing queued and nothing undelivered
paintWaits(row, selected) ==
    IF getCacheKey(row, selected, item_size) \in PixmapKeys
    THEN UNCHANGED state
    ELSE /\ jobs = <<>>
         /\ done = <<>>
         /\ paintMiss(row, selected)

\* paint(painter, option, index) for the row with this selection state
paint(row, selected) ==
    IF getCacheKey(row, selected, item_size) \in PixmapKeys
    THEN UNCHANGED state
    ELSE paintMiss(row, selected)

(***************************************************************************)
(* AsyncImageLoader / ImageWorker: the worker thread.                      *)
(***************************************************************************)
\* mutant: processImage without the except branch's fallback: a failed
\* scaling emits a null image
processImageNoFallback(job, failed) ==
    IF ~IsValid(job.image) THEN [key |-> job.key, image |-> job.image]
    ELSE IF failed THEN [key |-> job.key, image |-> NullImage]
    ELSE [key |-> job.key,
          image |-> Scaled(job.image, job.target, TransformationMode(job.target))]

\* ImageWorker.processImage: what it emits for a job; failed says whether
\* QImage.scaled raised
processImage(job, failed) ==
    IF ~IsValid(job.image) THEN [key |-> job.key, image |-> job.image]
    ELSE IF failed THEN [key |-> job.key, image |-> job.image]
    ELSE [key |-> job.key,
          image |-> Scaled(job.image, job.target, TransformationMode(job.target))]

\* mutant: a worker that drops the job when scaling raises
WorkerStepDrops(failed) ==
    /\ jobs # <<>>
    /\ jobs' = Tail(jobs)
    /\ done' = IF failed THEN done
               ELSE Append(done, [key |-> Head(jobs).key,
                                  image |-> Scaled(Head(jobs).image, Head(jobs).target,
                                                   TransformationMode(Head(jobs).target))])
    /\ UNCHANGED <<model, item_size, pixmap_cache, image_cache, pending_loads>>

\* mutant: a worker that runs the newest queued call first
WorkerStepNewestFirst(failed) ==
    /\ jobs # <<>>
    /\ jobs' = SubSeq(jobs, 1, Len(jobs) - 1)
    /\ done' = Append(done, processImage(jobs[Len(jobs)], failed))
    /\ UNCHANGED <<model, item_size, pixmap_cache, image_cache, pending_loads>>

\* mutant: a worker that stores its result in the delegate's image cache
\* from the worker thread
WorkerStepStores(failed) ==
    /\ jobs # <<>>
    /\ jobs' = Tail(jobs)
    /\ done' = Append(done, processImage(Head(jobs), failed))
    /\ image_cache' = DictPut(image_cache, Head(jobs).key,
                              processImage(Head(jobs), failed).image)
    /\ UNCHANGED <<model, item_size, pixmap_cache, pending_loads>>

\* one step of the worker thread's event loop: the oldest queued
\* processImage call runs and its imageLoaded emission is queued to the
\* consumer thread
WorkerStep(failed) ==
    /\ jobs # <<>>
    /\ jobs' = Tail(jobs)
    /\ done' = Append(done, processImage(Head(jobs), failed))
    /\ UNCHANGED <<model, item_size, pixmap_cache, image_cache, pending_loads>>

(***************************************************************************)
(* ModelGalleryItemDelegate: the consumer-side handlers.                   *)
(***************************************************************************)
\* keys_to_remove of delegate.py:281
KeysToRemove(cache_key) ==
    {k \in PixmapKeys : Contains(SplitTail(cache_key), k)}

\* the dict without the entries whose key is in keys (delegate.py:282-283)
Without(cache, keys) ==
    LET Kept(entry) == entry.key \notin keys
    IN  SelectSeq(cache, Kept)

\* mutant: _onImageReady with the `del` of delegate.py:287 unguarded: a
\* KeyError for a key that is not in _pending_loads, so the handler does not
\* return
onImageReadyUnguarded(cache_key, processed_image) ==
    /\ cache_key \in pending_loads
    /\ image_cache' = IF Cardinality(DOMAIN image_cache) < max_image_cache_size
                      THEN DictPut(image_cache, cache_key, processed_image)
                      ELSE image_cache
    /\ pixmap_cache' = Without(pixmap_cache, KeysToRemove(cache_key))
    /\ pending_loads' = pending_loads \ {cache_key}
    /\ UNCHANGED <<model, item_size>>

\* mutant: _onImageReady storing the image under the fragment it computes
\* for the invalidation, cache_key.split('_', 1)[1]
onImageReadyFragmentKey(cache_key, processed_image) ==
    /\ image_cache' = IF Cardinality(DOMAIN image_cache) < max_image_cache_size
                      THEN DictPut(image_cache, SplitTail(cache_key), processed_image)
                      ELSE image_cache
    /\ pixmap_cache' = Without(pixmap_cache, KeysToRemove(cache_key))
    /\ pending_loads' = pending_loads \ {cache_key}
    /\ UNCHANGED <<model, item_size>>

\* mutant: _onImageReady without the removal from _pending_loads of
\* delegate.py:286-287
onImageReadyKeepsTracker(cache_key, processed_image) ==
    /\ image_cache' = IF Cardinality(DOMAIN image_cache) < max_image_cache_size
                      THEN DictPut(image_cache, cache_key, processed_image)
                      ELSE image_cache
    /\ pixmap_cache' = Without(pixmap_cache, KeysToRemove(cache_key))
    /\ UNCHANGED <<model, item_size, pending_loads>>

\* _onImageReady(cache_key, processed_image)
onImageReady(cache_key, processed_image) ==
    /\ image_cache' = IF Cardinality(DOMAIN image_cache) < max_image_cache_size
                      THEN DictPut(image_cache, cache_key, processed_image)
                      ELSE image_cache
    /\ pixmap_cache' = Without(pixmap_cache, KeysToRemove(cache_key))
    /\ pending_loads' = pending_loads \ {cache_key}
    /\ UNCHANGED <<model, item_size>>

\* _onImageReady as a function of the delegate's tables: the tables it
\* leaves when it is applied to tables t (image_cache, pixmap_cache,
\* pending_loads) with completion c (key, image)
Applied(t, c) ==
    LET Kept(entry) == ~Contains(SplitTail(c.key), entry.key)
    IN  [image_cache |->
             IF Cardinality(DOMAIN t.image_cache) < max_image_cache_size
             THEN DictPut(t.image_cache, c.key, c.image)
             ELSE t.image_cache,
         pixmap_cache |-> SelectSeq(t.pixmap_cache, Kept),
         pending_loads |-> t.pending_loads \ {c.key}]

\* the consumer thread's event loop delivers the oldest queued completion
ImageReady ==
    /\ done # <<>>
    /\ done' = Tail(done)
    /\ onImageReady(Head(done).key, Head(done).image)
    /\ UNCHANGED jobs

\* setItemSize(size)
setItemSize(size) ==
    /\ item_size' = size
    /\ pixmap_cache' = <<>>
    /\ image_cache' = EmptyDict

\* mutant: clearCaches without the image cache
clearCachesKeepsImages ==
    /\ pixmap_cache' = <<>>
    /\ image_cache' = image_cache
    /\ pending_loads' = {}

\* clearCaches()
clearCaches ==
    /\ pixmap_cache' = <<>>
    /\ image_cache' = EmptyDict
    /\ pending_loads' = {}

(***************************************************************************)
(* History of the paint requests: it records what happened and decides     *)
(* nothing.                                                                *)
(***************************************************************************)
\* paints: no request yet, one, or several
NoRequests == [paints |-> "none", jobs |-> 0, miss |-> FALSE]

WindowAt(key) == IF key \in DOMAIN window THEN window[key] ELSE NoRequests

EmptyWindow == [k \in {} |-> NoRequests]

\* a paint that finds nothing for its keys: no pixmap, no processed image,
\* no job in flight, and a decoded image to scale
FirstTimeMiss(row, selected) ==
    /\ getCacheKey(row, selected, item_size) \notin PixmapKeys
    /\ IsValid(row.image)
    /\ getImageCacheKey(row, item_size) \notin DOMAIN image_cache
    /\ getImageCacheKey(row, item_size) \notin pending_loads

\* the requests are recorded per image key of a decoded image: an item
\* without one has no scale job to request
RecordPaint(i, selected) ==
    LET key == getImageCacheKey(model[i], item_size)
        old == WindowAt(key)
        new == [paints |-> IF old.paints = "none" THEN "one" ELSE "several",
                jobs   |-> old.jobs + (Len(jobs') - Len(jobs)),
                miss   |-> IF old.paints = "none" THEN FirstTimeMiss(model[i], selected)
                           ELSE old.miss]
    IN  /\ window' = IF IsValid(model[i].image)
                     THEN [k \in (DOMAIN window) \cup {key} |->
                              IF k = key THEN new ELSE window[k]]
                     ELSE window
        /\ painted' = painted \cup {i}
        /\ UNCHANGED <<view, db>>

(***************************************************************************)
(* The operations of the gallery, as the event loops run them.             *)
(***************************************************************************)
Outstanding == Len(jobs) + Len(done)

\* QListView paints one item through the delegate
Paint(i, selected) ==
    /\ PaintBranch(model[i]) = "start" => Outstanding < MaxOutstanding
    /\ paint(model[i], selected)
    /\ RecordPaint(i, selected)

\* the worker thread runs one processImage call
Worker ==
    /\ \E failed \in BOOLEAN : WorkerStep(failed)
    /\ UNCHANGED <<window, painted, view, db>>

\* the consumer thread applies one completion
Completion ==
    /\ ImageReady
    /\ window' = EmptyWindow
    /\ UNCHANGED <<painted, view, db>>

\* ImageGalleryListView.setGridSize with a size that differs from the grid
\* size (setItemsPerRow -> _updateGridSize): gridSizeChanged is connected
\* to setItemSize
GridSizeChanged(size) ==
    /\ size # item_size
    /\ setItemSize(size)
    /\ UNCHANGED <<model, pending_loads, jobs, done>>
    /\ window' = EmptyWindow
    /\ painted' = {}
    /\ UNCHANGED <<view, db>>

\* ImageGalleryListView.resizeEvent with a significant width change:
\* _updateGridSize (setItemSize when the grid size changes), then
\* clearCaches
ResizeEvent(size) ==
    /\ item_size' = size
    /\ clearCaches
    /\ UNCHANGED <<model, jobs, done>>
    /\ window' = EmptyWindow
    /\ painted' = IF size # item_size THEN {} ELSE painted
    /\ UNCHANGED <<view, db>>

\* clearCaches called by setModel, _onModelReset, ModelGalleryView.clearCaches
\* and setVisible(False)
ClearCaches ==
    /\ clearCaches
    /\ UNCHANGED <<model, item_size, jobs, done>>
    /\ window' = EmptyWindow
    /\ UNCHANGED <<painted, view, db>>

\* the state after ModelGalleryItemDelegate.__init__
Init ==
    /\ model = SmallModel
    /\ item_size = InitialSize
    /\ pixmap_cache = <<>>
    /\ image_cache = EmptyDict
    /\ pending_loads = {}
    /\ jobs = <<>>
    /\ done = <<>>
    /\ window = EmptyWindow
    /\ painted = {}
    /\ view = InitialView
    /\ db = InitialController

PaintItem == \E i \in 1..Len(model), selected \in BOOLEAN : Paint(i, selected)

ItemsPerRowChanged == \E size \in Sizes : GridSizeChanged(size)

Resized == \E size \in Sizes : ResizeEvent(size)

Next ==
    \/ PaintItem
    \/ Worker
    \/ Completion
    \/ ItemsPerRowChanged
    \/ Resized
    \/ ClearCaches

Spec == Init /\ [][Next]_vars

\* SpecFair: the gallery at one item size, with both event loops running:
\* a queued processImage call is eventually run by the worker thread, a
\* queued completion is eventually delivered by the consumer thread
NextFair ==
    \/ PaintItem
    \/ Worker
    \/ Completion
    \/ ClearCaches

SpecFair == Init /\ [][NextFair]_vars /\ WF_vars(Worker) /\ WF_vars(Completion)

(***************************************************************************)
(* SpecDecode: the gallery at one item size, where the DecorationRole of   *)
(* the second item is a null QImage or None.                               *)
(***************************************************************************)
InitDecode ==
    /\ model \in { << SmallModel[1], Row(<<"c">>, <<"L">>, image) >> :
                        image \in {NullImage, NoneImage} }
    /\ item_size = InitialSize
    /\ pixmap_cache = <<>>
    /\ image_cache = EmptyDict
    /\ pending_loads = {}
    /\ jobs = <<>>
    /\ done = <<>>
    /\ window = EmptyWindow
    /\ painted = {}
    /\ view = InitialView
    /\ db = InitialController

SpecDecode == InitDecode /\ [][NextFair]_vars

(***************************************************************************)
(* SpecRefresh: a gallery of one item whose image the data source          *)
(* replaces while the gallery is shown.  QImage.cacheKey() is a qint64,    *)
(* (ser_no << 32) | detach_no with both counters signed; the fingerprints  *)
(* are values of that type.                                                *)
(***************************************************************************)
Fingerprints == {-2, -1, 7}

\* the data source replaces the image of row i
DataRefreshed(i, fp) ==
    /\ fp # model[i].image.fp
    /\ model' = [model EXCEPT ![i].image = RawImage(fp, 512, 768)]
    /\ UNCHANGED <<item_size, pixmap_cache, image_cache, pending_loads, jobs, done,
                   window, painted, view, db>>

Refreshed == \E i \in 1..Len(model), fp \in Fingerprints : DataRefreshed(i, fp)

InitRefresh ==
    /\ model \in { << Row(<<"a">>, <<"L">>, RawImage(fp, 512, 768)) >> :
                        fp \in Fingerprints }
    /\ item_size = InitialSize
    /\ pixmap_cache = <<>>
    /\ image_cache = EmptyDict
    /\ pending_loads = {}
    /\ jobs = <<>>
    /\ done = <<>>
    /\ window = EmptyWindow
    /\ painted = {}
    /\ view = InitialView
    /\ db = InitialController

NextRefresh ==
    \/ PaintItem
    \/ Worker
    \/ Completion
    \/ Refreshed

SpecRefresh == InitRefresh /\ [][NextRefresh]_vars

(***************************************************************************)
(* SpecNames: the gallery at one item size with name and type texts that   *)
(* contain the separator of the keys.  NameRole and TypeRole are arbitrary *)
(* texts of the data source.                                               *)
(***************************************************************************)
\* an item without an image whose name is the text _onImageReady searches
\* the pixmap keys for when the job of the first item completes
FragmentNamed ==
    << SmallModel[1],
       Row(SplitTail(getImageCacheKey(SmallModel[1], InitialSize)), <<"L">>,
           NullImage) >>

\* two items showing the same image, named "a_b" of type "c" and named "a"
\* of type "b_c"
SeparatorNamed ==
    << Row(<<"a", "_", "b">>, <<"c">>, RawImage(7, 512, 768)),
       Row(<<"a">>, <<"b", "_", "c">>, RawImage(7, 512, 768)) >>

InitNames ==
    /\ model \in {FragmentNamed, SeparatorNamed}
    /\ item_size = InitialSize
    /\ pixmap_cache = <<>>
    /\ image_cache = EmptyDict
    /\ pending_loads = {}
    /\ jobs = <<>>
    /\ done = <<>>
    /\ window = EmptyWindow
    /\ painted = {}
    /\ view = InitialView
    /\ db = InitialController

SpecNames == InitNames /\ [][NextFair]_vars

(***************************************************************************)
(* SpecGrid: the gallery with its list view: the item size is the grid     *)
(* size the view computes from the items per row and the viewport width.   *)
(* Items are painted; the worker thread is not scheduled.                  *)
(***************************************************************************)
\* the counts ModelGalleryView.updateItemsPerRow passes on (1..10)
ItemsPerRowChoices == {4, 5}

\* viewport widths: two less than cache_tolerance apart, one more than
\* resize_threshold away
ViewportWidths == {1000, 1005, 1200}

\* _updateGridSize with the view's fields as in v: calculateGridSize, then
\* setGridSize, which sets the grid size and emits gridSizeChanged to
\* setItemSize only when the size differs
updateGridSize(v) ==
    LET calc == calculateGridSize(v)
    IN  /\ view' = [calc.view EXCEPT !.grid_size = calc.size]
        /\ IF calc.size # v.grid_size
           THEN setItemSize(calc.size)
           ELSE UNCHANGED <<item_size, pixmap_cache, image_cache>>

\* ImageGalleryListView.setItemsPerRow(items_per_row)
setItemsPerRow(items_per_row) ==
    IF view.items_per_row # items_per_row
    THEN updateGridSize([view EXCEPT !.items_per_row = items_per_row])
    ELSE UNCHANGED <<view, item_size, pixmap_cache, image_cache>>

\* the items-per-row control of the gallery changes the count
SetItemsPerRow(items_per_row) ==
    /\ items_per_row # view.items_per_row
    /\ setItemsPerRow(items_per_row)
    /\ UNCHANGED <<model, pending_loads, jobs, done, db>>
    /\ window' = EmptyWindow
    /\ painted' = IF item_size' # item_size THEN {} ELSE painted

\* ImageGalleryListView.resizeEvent for a viewport that is now this wide:
\* on a width change above resize_threshold, _updateGridSize and then
\* clearCaches
ViewResized(width) ==
    /\ width # view.viewport_width
    /\ IF Abs(width - view.viewport_width) > resize_threshold
       THEN LET calc == calculateGridSize([view EXCEPT !.viewport_width = width])
            IN  /\ view' = [calc.view EXCEPT !.grid_size = calc.size]
                /\ item_size' = IF calc.size # view.grid_size THEN calc.size
                                ELSE item_size
                /\ clearCaches
       ELSE /\ view' = [view EXCEPT !.viewport_width = width]
            /\ UNCHANGED <<item_size, pixmap_cache, image_cache, pending_loads>>
    /\ UNCHANGED <<model, jobs, done, db>>
    /\ window' = EmptyWindow
    /\ painted' = IF item_size' # item_size THEN {} ELSE painted

ItemsPerRowSet == \E n \in ItemsPerRowChoices : SetItemsPerRow(n)

ViewportResized == \E width \in ViewportWidths : ViewResized(width)

NextGrid ==
    \/ PaintItem
    \/ ItemsPerRowSet
    \/ ViewportResized

SpecGrid == Init /\ [][NextGrid]_vars

(***************************************************************************)
(* SpecDb: the database controller with its provider, its worker thread    *)
(* and its throttle timer; the gallery is left alone.                      *)
(***************************************************************************)
gallery == <<model, item_size, pixmap_cache, image_cache, pending_loads, jobs, done,
             window, painted, view>>

\* the user shows or leaves the Database tab
TabSwitched ==
    /\ db' = [db EXCEPT !.visible = ~@]
    /\ UNCHANGED gallery

\* view.updateClicked: the update button is pressed; it is connected to
\* updateModelData
UpdateClicked ==
    /\ db.visible
    /\ db.update_enabled
    /\ db.started < MaxUpdates
    /\ db' = updateModelData(db)
    /\ UNCHANGED gallery

\* delayed_update, the single-shot timer of start(): the main window is
\* visible, so it calls updateModelData
DelayedUpdate ==
    /\ db.auto_update
    /\ db.started < MaxUpdates
    /\ db' = updateModelData([db EXCEPT !.auto_update = FALSE])
    /\ UNCHANGED gallery

\* the provider has a page ready: pageReady runs onPageReady
PageReady ==
    /\ db.requests > 0
    /\ db.pages_read < MaxPages
    /\ db' = onPageReady(providerPage(db))
    /\ UNCHANGED gallery

\* a request of the provider ends: endRequest runs onProviderUpdateEnd
ProviderUpdateEnd ==
    /\ db.requests > 0
    /\ db' = onProviderUpdateEnd(providerEnd(db))
    /\ UNCHANGED gallery

\* the worker thread runs one queued call
DbWorker ==
    /\ db.calls # <<>>
    /\ \E failed \in BOOLEAN : db' = workerCall(db, failed)
    /\ UNCHANGED gallery

\* the controller's thread handles one signal of the worker
DbSignal ==
    /\ db.signals # <<>>
    /\ db' = workerSignal(db)
    /\ UNCHANGED gallery

\* update_timer times out, 100 ms after it was started
TimerTimeout ==
    /\ db.timer_active
    /\ db' = emitDataUpdated([db EXCEPT !.timer_active = FALSE])
    /\ UNCHANGED gallery

NextDb ==
    \/ TabSwitched
    \/ UpdateClicked
    \/ DelayedUpdate
    \/ PageReady
    \/ ProviderUpdateEnd
    \/ DbWorker
    \/ DbSignal
    \/ TimerTimeout

SpecDb == Init /\ [][NextDb]_vars

(***************************************************************************)
(* SpecBulk: a gallery that grows while it is shown, one row at a time,    *)
(* each row with an image of its own, until both caches have been full.    *)
(* Each new row is painted unselected, its image is scaled and applied,    *)
(* and the row is painted selected; in between, the item with the oldest   *)
(* pixmap entry may be painted again.                                      *)
(***************************************************************************)
\* row n of the growing gallery
BulkRow(n) == Row(<<"m">> \o NatStr(n), <<"L">>, RawImage(n, 512, 768))

LastRow == Len(model)

\* the data source gains a row
RowInserted ==
    /\ Len(model) < MaxRows
    /\ model' = Append(model, BulkRow(Len(model) + 1))
    /\ UNCHANGED <<item_size, pixmap_cache, image_cache, pending_loads, jobs, done,
                   window, painted, view, db>>

BulkRowInserted ==
    /\ Outstanding = 0
    /\ getCacheKey(model[LastRow], TRUE, item_size) \in PixmapKeys
    /\ RowInserted

BulkPaintUnselected ==
    /\ getCacheKey(model[LastRow], TRUE, item_size) \notin PixmapKeys
    /\ Paint(LastRow, FALSE)

BulkPaintSelected ==
    /\ Outstanding = 0
    /\ getCacheKey(model[LastRow], FALSE, item_size) \in PixmapKeys
    /\ Paint(LastRow, TRUE)

\* the item whose pixmap entry is the oldest of the cache is painted again:
\* a pixmap cache hit
BulkRepaintOldest ==
    /\ Outstanding = 0
    /\ pixmap_cache # <<>>
    /\ \E i \in 1..Len(model), selected \in BOOLEAN :
           /\ getCacheKey(model[i], selected, item_size) = pixmap_cache[1].key
           /\ Paint(i, selected)

\* the data source gains a row while the scale job of the last row is
\* outstanding and the image cache is one entry short of its capacity
BulkRowInsertedEarly ==
    /\ Cardinality(DOMAIN image_cache) = max_image_cache_size - 1
    /\ Outstanding = 1
    /\ getCacheKey(model[LastRow], FALSE, item_size) \in PixmapKeys
    /\ RowInserted

\* the first item is painted again after the eviction has removed its
\* pixmap entry: the cache is above 90% of its capacity and lacks the key
BulkRepaintEvicted ==
    /\ Outstanding = 0
    /\ Len(pixmap_cache) > max_cache_size - evict_batch
    /\ \E selected \in BOOLEAN :
           /\ getCacheKey(model[1], selected, item_size) \notin PixmapKeys
           /\ Paint(1, selected)

\* the worker thread runs one processImage call, and scaling succeeds
BulkWorker ==
    /\ WorkerStep(FALSE)
    /\ UNCHANGED <<window, painted, view, db>>

\* an invalidation while the pixmap cache is at capacity
BulkInvalidate ==
    /\ Len(pixmap_cache) >= max_cache_size
    /\ \/ ClearCaches
       \/ Resized
       \/ ItemsPerRowChanged

InitBulk ==
    /\ model = <<BulkRow(1)>>
    /\ item_size = InitialSize
    /\ pixmap_cache = <<>>
    /\ image_cache = EmptyDict
    /\ pending_loads = {}
    /\ jobs = <<>>
    /\ done = <<>>
    /\ window = EmptyWindow
    /\ painted = {}
    /\ view = InitialView
    /\ db = InitialController

NextBulk ==
    \/ BulkRowInserted
    \/ BulkPaintUnselected
    \/ BulkRowInsertedEarly
    \/ BulkPaintSelected
    \/ BulkRepaintOldest
    \/ BulkRepaintEvicted
    \/ BulkWorker
    \/ Completion
    \/ BulkInvalidate

SpecBulk == InitBulk /\ [][NextBulk]_vars

(***************************************************************************)
(* The claims.                                                             *)
(***************************************************************************)
Rows == 1..Len(model)

\* the jobs for key that were dispatched and whose completion has not been
\* applied
OutstandingFor(key) ==
    Cardinality({n \in 1..Len(jobs) : jobs[n].key = key})
        + Cardinality({n \in 1..Len(done) : done[n].key = key})

\* C1 (as claimed): once the scale job for an item's image key has completed
\* successfully and the processed image is still cached, every paint of the
\* item draws a pixmap built from the processed image.
C1_CacheCorrectness ==
    \A i \in Rows, selected \in BOOLEAN :
        LET key == getImageCacheKey(model[i], item_size)
        IN  (key \in DOMAIN image_cache /\ image_cache[key].kind = "scaled")
                => PaintResult(model[i], selected).shown = image_cache[key]

\* C2 (as claimed): at most one scale job per image key is dispatched and
\* not yet applied by the consumer.
C2_OneJobPerKey ==
    \A key \in {jobs[n].key : n \in 1..Len(jobs)} \cup {done[n].key : n \in 1..Len(done)} :
        OutstandingFor(key) <= 1

\* C3: of the paint requests for one image key issued since the last
\* completion or invalidation, the first of which found nothing cached and
\* nothing in flight, exactly one dispatched a scale job; and no key ever
\* has two jobs dispatched between completions and invalidations.
C3_ExactlyOneDispatch ==
    \A key \in DOMAIN window :
        /\ window[key].jobs <= 1
        /\ window[key].miss => window[key].jobs = 1

\* C3 witness: two or more requests for a key, the first a first-time miss,
\* and one job
C3_Witness ==
    \E key \in DOMAIN window :
        /\ window[key].miss
        /\ window[key].paints = "several"
        /\ window[key].jobs = 1

\* C4: the pixmap cache never holds more than _max_cache_size entries and
\* the image cache never more than _max_image_cache_size.
C4_BoundedCaches ==
    /\ Len(pixmap_cache) <= max_cache_size
    /\ Cardinality(PixmapKeys) = Len(pixmap_cache)
    /\ Cardinality(DOMAIN image_cache) <= max_image_cache_size

\* C4 witness: the image cache is at capacity and the pixmap cache has been
\* at capacity and has evicted its oldest entries
C4_Witness ==
    /\ Cardinality(DOMAIN image_cache) = max_image_cache_size
    /\ Len(pixmap_cache) > max_cache_size - evict_batch
    /\ Len(model) > max_image_cache_size
    /\ getCacheKey(model[1], FALSE, item_size) \notin PixmapKeys
    /\ getCacheKey(model[LastRow], FALSE, item_size) \in PixmapKeys

\* the processed image a job for row at the current size produces
ScaledNow(row) ==
    Scaled(row.image, TargetSize(row.image, item_size),
           TransformationMode(TargetSize(row.image, item_size)))

\* C5 (as claimed): the first paint of an item after the item size changed
\* misses both the pixmap cache and the image cache.
C5_FirstPaintMissesBoth ==
    \A i \in Rows \ painted, selected \in BOOLEAN :
        /\ getCacheKey(model[i], selected, item_size) \notin PixmapKeys
        /\ getImageCacheKey(model[i], item_size) \notin DOMAIN image_cache

\* C5 (amended): the first paint of an item after the item size changed
\* misses the pixmap cache, and whatever a paint draws was produced for the
\* current item size: the pixmap has that size and a scaled image in it was
\* scaled to the target of that size.
C5_NoStaleSize ==
    \A i \in Rows, selected \in BOOLEAN :
        LET row == model[i]
            key == getImageCacheKey(row, item_size)
            drawn == PaintResult(row, selected)
        IN  /\ i \notin painted
                => getCacheKey(row, selected, item_size) \notin PixmapKeys
            /\ drawn.size = item_size
            /\ drawn.shown.kind = "scaled" => drawn.shown = ScaledNow(row)
            /\ (key \in DOMAIN image_cache /\ image_cache[key].kind = "scaled")
                => image_cache[key] = ScaledNow(row)

\* C5 witness: the size has changed, the item has not been painted since,
\* and a job dispatched at the old size has completed after the change
C5_Witness ==
    /\ 1 \notin painted
    /\ item_size # InitialSize
    /\ getImageCacheKey(model[1], InitialSize) \in DOMAIN image_cache

\* C6: in every reachable state, whatever the worker has queued, finished
\* or failed, a paint of any item can run to completion as one step.
C6_PaintNeverWaits ==
    \A i \in Rows, selected \in BOOLEAN :
        ENABLED (paint(model[i], selected) /\ RecordPaint(i, selected))

\* C6 witness: the worker has a job queued and a failed job's completion
\* undelivered, and the next paint is a miss
C6_Witness ==
    /\ jobs # <<>>
    /\ done # <<>>
    /\ done[1].image.kind = "raw"
    /\ getCacheKey(model[1], FALSE, item_size) \notin PixmapKeys

\* the image keys that can enter _pending_loads in SpecFair: those of the
\* decoded images, at the initial item size, which SpecFair never changes
FairImageKeys ==
    {getImageCacheKey(SmallModel[i], InitialSize) :
        i \in {j \in 1..Len(SmallModel) : IsValid(SmallModel[j].image)}}

\* C7: every key in _pending_loads is eventually removed from it, whether
\* its job's scaling succeeds or raises.
C7_PendingEventuallyRemoved ==
    \A key \in FairImageKeys :
        (key \in pending_loads) ~> (key \notin pending_loads)

\* C7 witness: a key is in _pending_loads and the completion of its job,
\* whose scaling raised, waits to be delivered
C7_Witness ==
    \E n \in 1..Len(done) :
        /\ done[n].image.kind = "raw"
        /\ done[n].key \in pending_loads

\* C8: each processImage call the worker runs emits exactly one completion,
\* with the job's key; it carries the scaled image, or the job's own image
\* when scaling raised or the image is null; and a completion is emitted by
\* nothing else.
C8_OneCompletionPerJob ==
    [][ /\ (jobs # <<>> /\ jobs' = Tail(jobs))
            => \E failed \in BOOLEAN :
                   done' = Append(done,
                       [key |-> Head(jobs).key,
                        image |-> IF failed \/ ~IsValid(Head(jobs).image)
                                  THEN Head(jobs).image
                                  ELSE Scaled(Head(jobs).image, Head(jobs).target,
                                              TransformationMode(Head(jobs).target))])
        /\ Len(done') > Len(done) => (jobs # <<>> /\ jobs' = Tail(jobs))
      ]_vars

\* C8 witness: the completion of a job whose scaling raised, carrying the
\* unscaled image, and the completion of a job that was scaled
C8_Witness ==
    /\ Len(done) = 2
    /\ done[1].image.kind = "raw"
    /\ done[2].image.kind = "scaled"

\* C9 (as claimed): when a completion for an image key is applied, no pixmap
\* cache entry of an item showing that image at that size is left.
C9_CompletionInvalidates ==
    [][ (done # <<>> /\ done' = Tail(done))
            => \A i \in Rows, selected \in BOOLEAN, size \in Sizes :
                   getImageCacheKey(model[i], size) = Head(done).key
                       => getCacheKey(model[i], selected, size) \notin PixmapKeys'
      ]_vars

\* C10 (as claimed): the paint that dispatches the scale job of an item
\* draws the raw image, and once the completion is applied a second paint
\* for the same key draws the scaled image.
C10_RawThenScaled ==
    \A i \in Rows, selected \in BOOLEAN :
        LET row == model[i]
            key == getImageCacheKey(row, item_size)
        IN  /\ FirstTimeMiss(row, selected)
                => PaintResult(row, selected).shown = row.image
            /\ (/\ getCacheKey(row, selected, item_size) \in PixmapKeys
                /\ key \in DOMAIN image_cache
                /\ image_cache[key].kind = "scaled")
                => PaintResult(row, selected).shown = image_cache[key]

\* C11 (as claimed): a paint that misses the pixmap cache while the item's
\* image key is in _pending_loads and no processed image is cached composes
\* with the loading placeholder, not the raw image; and a cached processed
\* image takes precedence over the placeholder.
C11_PlaceholderWhileInFlight ==
    \A i \in Rows, selected \in BOOLEAN :
        LET row == model[i]
            key == getImageCacheKey(row, item_size)
        IN  (getCacheKey(row, selected, item_size) \notin PixmapKeys)
                => /\ (key \in pending_loads /\ key \notin DOMAIN image_cache)
                        => (Render(row, selected).shown = LoadingPlaceholder)
                   /\ (key \in DOMAIN image_cache)
                        => (Render(row, selected).shown = image_cache[key])

\* C12: a paint of an item whose image is None or a null QImage runs to
\* completion, draws a pixmap composed with the error placeholder, and
\* neither dispatches a scale job nor enters a key in _pending_loads.
C12_DecodeFailure ==
    \A i \in Rows, selected \in BOOLEAN :
        LET row == model[i]
            key == getImageCacheKey(row, item_size)
        IN  ~IsValid(row.image)
                => /\ ENABLED (paint(row, selected) /\ RecordPaint(i, selected))
                   /\ PaintResult(row, selected).shown = ErrorImage(item_size)
                   /\ key \notin pending_loads
                   /\ OutstandingFor(key) = 0

\* C12 witness: the item whose image is None has been painted, selected and
\* unselected, while the job of the other item is in flight
C12_Witness ==
    /\ model[2].image = NoneImage
    /\ getCacheKey(model[2], FALSE, item_size) \in PixmapKeys
    /\ getCacheKey(model[2], TRUE, item_size) \in PixmapKeys
    /\ pending_loads # {}

\* the keys _getCacheKey and _getImageCacheKey return for row i in the
\* current state
CacheKeyNow(i, selected) == getCacheKey(model[i], selected, item_size)

ImageKeyNow(i) == getImageCacheKey(model[i], item_size)

\* C13: the keys are functions of (name, type, image fingerprint, selected,
\* item size) only: a key evaluated in an earlier state, with other contents
\* of the caches, the tracker and the worker queues (the key kept in a
\* pixmap cache entry, the key carried by a queued job), equals the key
\* evaluated in the current state for the same inputs.
C13_KeyDeterminism ==
    /\ \A n \in 1..Len(pixmap_cache), i \in Rows :
           (/\ model[i].name = pixmap_cache[n].pixmap.name
            /\ model[i].type = pixmap_cache[n].pixmap.type
            /\ item_size = pixmap_cache[n].pixmap.size)
               => pixmap_cache[n].key
                      = CacheKeyNow(i, pixmap_cache[n].pixmap.selected)
    /\ \A n \in 1..Len(jobs), i \in Rows :
           (/\ model[i].image = jobs[n].image
            /\ jobs[n].target = TargetSize(jobs[n].image, item_size))
               => jobs[n].key = ImageKeyNow(i)

\* C13 witness: a pixmap entry cached at the current size, a processed
\* image cached for the other size and a job queued, so the keys held were
\* evaluated in states that differ in caches, tracker and worker
C13_Witness ==
    /\ pixmap_cache # <<>>
    /\ getImageCacheKey(model[1], InitialSize) \in DOMAIN image_cache
    /\ item_size # InitialSize
    /\ jobs # <<>>
    /\ pending_loads # {}

\* C14 (as claimed): when the image of an item is replaced by one with a
\* different fingerprint, at the same item size, the item's pixmap key and
\* its image key both change.
C14_ChangedImageChangesKey ==
    [][ \A i \in Rows, selected \in BOOLEAN :
            (/\ model'[i].image.fp # model[i].image.fp
             /\ IsValid(model[i].image)
             /\ IsValid(model'[i].image)
             /\ item_size' = item_size)
                => /\ CacheKeyNow(i, selected)' # CacheKeyNow(i, selected)
                   /\ ImageKeyNow(i)' # ImageKeyNow(i)
      ]_vars

\* C15 (as claimed): the pixmap cache evicts in recency order, a hit
\* counting as an access: an item painted (hit or miss) since the last
\* completion or invalidation still has a pixmap entry, because every
\* eviction since then had entries to remove whose last access is older.
C15_RecencyOrderedEviction ==
    \A i \in Rows :
        ImageKeyNow(i) \in DOMAIN window
            => \E selected \in BOOLEAN : CacheKeyNow(i, selected) \in PixmapKeys

\* C16 (as claimed): after a completion is applied the image cache holds the
\* completed key, also when the cache was at capacity.
C16_CompletionStoredAtCapacity ==
    [][ (done # <<>> /\ done' = Tail(done))
            => Head(done).key \in DOMAIN image_cache'
      ]_vars

\* C17 (as claimed): every step that changes the item size leaves the
\* pixmap cache, the image cache and _pending_loads empty and leaves the
\* worker's queues alone.
C17_ResizeClearsAll ==
    [][ (item_size' # item_size)
            => /\ pixmap_cache' = <<>>
               /\ image_cache' = EmptyDict
               /\ pending_loads' = {}
               /\ jobs' = jobs
               /\ done' = done
      ]_vars

\* C18: clearCaches, as called on model reset and on hide, leaves the pixmap
\* cache, the image cache and _pending_loads empty, and afterwards the paint
\* of every item is a miss that builds the pixmap from the item's own name,
\* type and image: it dispatches the scale job of a decoded image anew and
\* shows the error placeholder for an item without one.
C18_ClearThenRebuild ==
    [][ ClearCaches
            => /\ pixmap_cache' = <<>>
               /\ image_cache' = EmptyDict
               /\ pending_loads' = {}
               /\ \A i \in Rows, selected \in BOOLEAN :
                      /\ PaintResult(model[i], selected)' = Render(model[i], selected)'
                      /\ PaintBranch(model[i])'
                             = (IF IsValid(model[i].image) THEN "start" ELSE "original")
                      /\ Render(model[i], selected)'.name = model[i].name
                      /\ Render(model[i], selected)'.type = model[i].type
                      /\ Render(model[i], selected)'.shown
                             = (IF IsValid(model[i].image) THEN LoadingPlaceholder
                                ELSE ErrorImage(item_size))
      ]_vars

\* C18 witness: everything is empty after items were painted, with a job
\* still outstanding: the state clearCaches leaves
C18_Witness ==
    /\ pixmap_cache = <<>>
    /\ image_cache = EmptyDict
    /\ pending_loads = {}
    /\ painted = {1, 2}
    /\ Outstanding > 0

\* C19: a completion whose key is not in _pending_loads can be applied, and
\* applying it leaves _pending_loads as it is.
C19_AbsentKeySafe ==
    (done # <<>> /\ Head(done).key \notin pending_loads)
        => /\ ENABLED Completion
           /\ ~ ENABLED (Completion /\ pending_loads' # pending_loads)

\* C19 witness: the completion at the head of the queue is for a key that
\* clearCaches removed from _pending_loads
C19_Witness ==
    /\ done # <<>>
    /\ Head(done).key \notin pending_loads

\* C20 (as claimed): the key of every job that is outstanding (queued to the
\* worker, or completed and not yet applied) is in _pending_loads.
C20_TrackedWhileOutstanding ==
    /\ \A n \in 1..Len(jobs) : jobs[n].key \in pending_loads
    /\ \A n \in 1..Len(done) : done[n].key \in pending_loads

\* the delegate's tables in the current state
Tables == [image_cache |-> image_cache, pixmap_cache |-> pixmap_cache,
           pending_loads |-> pending_loads]

\* C21 (as claimed): two completions with different keys that wait to be
\* applied leave the same image cache, pixmap cache and tracker in either
\* order of application.
C21_CompletionsCommute ==
    \A m, n \in 1..Len(done) :
        done[m].key # done[n].key
            => Applied(Applied(Tables, done[m]), done[n])
                   = Applied(Applied(Tables, done[n]), done[m])

\* C22: the worker runs one processImage call per step, the oldest queued
\* one, and the completion of that call is queued behind the earlier
\* completions within the same step: calls run one at a time in dispatch
\* order, and a completion is emitted before the next call starts.
C22_WorkerSerialized ==
    [][ /\ Len(jobs') < Len(jobs)
            => /\ jobs' = Tail(jobs)
               /\ Len(done') = Len(done) + 1
               /\ done'[Len(done')] \in {processImage(Head(jobs), failed) :
                                             failed \in BOOLEAN}
        /\ Len(done') > Len(done)
            => SubSeq(done', 1, Len(done)) = done
      ]_vars

\* C22 witness: two jobs with different keys were dispatched in this order
\* and both completions are queued, in the same order
C22_Witness ==
    /\ Len(done) = 2
    /\ done[1].key = getImageCacheKey(model[1], InitialSize)
    /\ done[2].key # done[1].key

\* C23: a step of the worker thread (a queued processImage call leaves the
\* queue) leaves the pixmap cache, the image cache, _pending_loads and the
\* item size unchanged; its one effect outside the worker is a completion
\* appended to the queue of the consumer thread.
C23_WorkerOwnsNoCache ==
    [][ (Len(jobs') < Len(jobs))
            => /\ pixmap_cache' = pixmap_cache
               /\ image_cache' = image_cache
               /\ pending_loads' = pending_loads
               /\ item_size' = item_size
               /\ model' = model
               /\ \E c \in {processImage(Head(jobs), failed) : failed \in BOOLEAN} :
                      done' = Append(done, c)
      ]_vars

\* C23 witness: the worker has run a call while the pixmap cache and the
\* image cache held entries
C23_Witness ==
    /\ done # <<>>
    /\ pixmap_cache # <<>>
    /\ image_cache # EmptyDict

\* C24 (as claimed): no step writes the pixmap cache or the image cache
\* under a key that is already present: a completion that is stored finds
\* its key absent from the image cache, and a paint that caches a pixmap
\* finds its key absent from the pixmap cache.
C24_NoOverwrite ==
    [][ /\ (/\ done # <<>>
             /\ done' = Tail(done)
             /\ Cardinality(DOMAIN image_cache) < max_image_cache_size)
                => Head(done).key \notin DOMAIN image_cache
        /\ (Len(pixmap_cache') > Len(pixmap_cache))
                => pixmap_cache'[Len(pixmap_cache')].key \notin PixmapKeys
      ]_vars

\* the image is what the worker emits for the job paint dispatches under
\* key: the job of an item's image at some item size, key being the image
\* key of that image and size
ProducedFor(key, image) ==
    \E i \in Rows, size \in Sizes, failed \in BOOLEAN :
        /\ key = getImageCacheKey(model[i], size)
        /\ image = processImage([key |-> key, image |-> model[i].image,
                                 target |-> TargetSize(model[i].image, size)],
                                failed).image

\* C25: every image cache entry, and every completion on its way to the
\* cache, sits under the image key of the job that produced it: the key of
\* that image's fingerprint and of the item size at dispatch.
C25_StoredUnderJobKey ==
    /\ \A key \in DOMAIN image_cache : ProducedFor(key, image_cache[key])
    /\ \A n \in 1..Len(done) : ProducedFor(done[n].key, done[n].image)

\* C25 witness: a processed image is cached under the key of an item size
\* that is not the current one, and another completion is on its way
C25_Witness ==
    /\ done # <<>>
    /\ \E key \in DOMAIN image_cache :
           /\ key # ImageKeyNow(1)
           /\ image_cache[key].kind = "scaled"

\* C26: a paint that inserts into the pixmap cache while it holds
\* _max_cache_size entries first removes entries, in that one step, down to
\* 90% of the capacity, and then adds its own; an insert into a cache with
\* fewer entries keeps them all.
C26_BatchEviction ==
    [][ (/\ pixmap_cache' # <<>>
         /\ pixmap_cache'[Len(pixmap_cache')].key \notin PixmapKeys)
            => IF Len(pixmap_cache) = max_cache_size
               THEN /\ Len(pixmap_cache') = (max_cache_size * 9) \div 10 + 1
                    /\ SubSeq(pixmap_cache', 1, Len(pixmap_cache') - 1)
                           = SubSeq(pixmap_cache, evict_batch + 1, max_cache_size)
               ELSE /\ Len(pixmap_cache) < max_cache_size
                    /\ SubSeq(pixmap_cache', 1, Len(pixmap_cache') - 1) = pixmap_cache
      ]_vars

\* C26 witness: the state an evicting insert leaves: 90% of the capacity
\* and the new entry, the oldest entries gone
C26_Witness ==
    /\ Len(pixmap_cache) = (max_cache_size * 9) \div 10 + 1
    /\ Len(model) > max_image_cache_size
    /\ getCacheKey(model[1], TRUE, item_size) \notin PixmapKeys
    /\ pixmap_cache[Len(pixmap_cache)].key = CacheKeyNow(LastRow, FALSE)

\* what a paint that has never had a pixmap for its key shows, given the
\* image cache and the tracker alone
FirstTimeShown(row) ==
    LET key == getImageCacheKey(row, item_size)
    IN  IF key \in DOMAIN image_cache THEN image_cache[key]
        ELSE IF ~IsValid(row.image) THEN ErrorImage(item_size)
        ELSE IF key \in pending_loads THEN row.image
        ELSE LoadingPlaceholder

\* C27: every paint that misses the pixmap cache, whether its entry was
\* evicted or never existed, caches the pixmap and has the dispatch and
\* tracker effects that the item, the selection, the item size, the image
\* cache and the tracker determine.
C27_EvictedAsFirstMiss ==
    [][ (/\ model' = model
         /\ item_size' = item_size
         /\ pixmap_cache' # <<>>
         /\ pixmap_cache'[Len(pixmap_cache')].key \notin PixmapKeys)
            => \A i \in Rows :
                   LET row == model[i]
                       entry == pixmap_cache'[Len(pixmap_cache')]
                       key == getImageCacheKey(row, item_size)
                       dispatches == /\ IsValid(row.image)
                                     /\ key \notin DOMAIN image_cache
                                     /\ key \notin pending_loads
                   IN  (row.name = entry.pixmap.name)
                          => /\ entry.key = CacheKeyNow(i, entry.pixmap.selected)
                             /\ entry.pixmap
                                    = [name |-> row.name, type |-> row.type,
                                       selected |-> entry.pixmap.selected,
                                       size |-> item_size,
                                       shown |-> FirstTimeShown(row)]
                             /\ image_cache' = image_cache
                             /\ IF dispatches
                                THEN /\ pending_loads' = pending_loads \cup {key}
                                     /\ jobs' = Append(jobs,
                                            [key |-> key, image |-> row.image,
                                             target |-> TargetSize(row.image, item_size)])
                                ELSE /\ pending_loads' = pending_loads
                                     /\ jobs' = jobs
      ]_vars

\* C27 witness: the pixmap entry of the first item was evicted and the item
\* has been painted again: its entry is the newest of a cache that is above
\* 90% of its capacity
C27_Witness ==
    /\ Len(pixmap_cache) > max_cache_size - evict_batch
    /\ Len(model) > max_image_cache_size
    /\ \E selected \in BOOLEAN :
           pixmap_cache[Len(pixmap_cache)].key = CacheKeyNow(1, selected)

\* the end of every key built for this item size: f"_{w}_{h}"
SizeSuffix(size) == <<"_">> \o IntStr(size[1]) \o <<"_">> \o IntStr(size[2])

\* s.endswith(suffix)
EndsWith(s, suffix) ==
    /\ Len(s) >= Len(suffix)
    /\ SubSeq(s, Len(s) - Len(suffix) + 1, Len(s)) = suffix

\* C28 (as claimed): every key of the image cache carries the current item
\* size.
C28_NoOldSizeEntries ==
    \A key \in DOMAIN image_cache : EndsWith(key, SizeSuffix(item_size))

\* C29 (as claimed): a completion for image key K removes from the pixmap
\* cache only entries of items whose image key, at the size of the entry,
\* is K, whatever the name and type texts are.
C29_CompletionFrame ==
    [][ (done # <<>> /\ done' = Tail(done))
            => \A n \in 1..Len(pixmap_cache) :
                   LET entry == pixmap_cache[n]
                   IN  (entry.key \notin PixmapKeys')
                          => \E i \in Rows :
                                 /\ getImageCacheKey(model[i], entry.pixmap.size)
                                        = Head(done).key
                                 /\ entry.key = getCacheKey(model[i],
                                                    entry.pixmap.selected,
                                                    entry.pixmap.size)
      ]_vars

\* C30 (as claimed): the pixmap key is injective in (name, type, image
\* fingerprint, selected, item size), so that the pixmap a paint draws,
\* hit or miss, was composed for the name and the type of the item painted.
C30_KeyInjective ==
    /\ \A i \in Rows, j \in Rows, selected \in BOOLEAN :
           CacheKeyNow(i, selected) = CacheKeyNow(j, selected)
               => /\ model[i].name = model[j].name
                  /\ model[i].type = model[j].type
                  /\ model[i].image.fp = model[j].image.fp
    /\ \A i \in Rows, selected \in BOOLEAN :
           /\ PaintResult(model[i], selected).name = model[i].name
           /\ PaintResult(model[i], selected).type = model[i].type

\* C31: tracker soundness: every key in _pending_loads has a job that was
\* dispatched (queued to the worker, or completed and not yet delivered)
\* and whose completion _onImageReady has not applied
C31_TrackerSound ==
    \A key \in pending_loads : OutstandingFor(key) >= 1

\* C31: a tracked key whose job the worker has finished and whose
\* completion is still queued to the consumer thread
C31_Witness ==
    /\ done # <<>>
    /\ Head(done).key \in pending_loads
    /\ OutstandingFor(Head(done).key) = 1

(***************************************************************************)
(* SpecShared: the gallery at one item size, where two items of different  *)
(* names show the same QImage (one cacheKey).                              *)
(***************************************************************************)
SharedImageModel ==
    << Row(<<"a">>, <<"L">>, RawImage(7, 512, 768)),
       Row(<<"c">>, <<"L">>, RawImage(7, 512, 768)) >>

InitShared ==
    /\ model = SharedImageModel
    /\ item_size = InitialSize
    /\ pixmap_cache = <<>>
    /\ image_cache = EmptyDict
    /\ pending_loads = {}
    /\ jobs = <<>>
    /\ done = <<>>
    /\ window = EmptyWindow
    /\ painted = {}
    /\ view = InitialView
    /\ db = InitialController

SpecShared == InitShared /\ [][NextFair]_vars

\* C32 (as claimed): the items that show one image at one size, selected or
\* not, share one Processed-Image key, and while a job for that key is in
\* flight no paint of any of them dispatches a second job.
C32_SharedJob ==
    /\ \A i \in Rows, j \in Rows :
           (model[i].image = model[j].image) => ImageKeyNow(i) = ImageKeyNow(j)
    /\ \A n \in 1..Len(jobs) : OutstandingFor(jobs[n].key) = 1

\* C33 (as claimed): after setItemsPerRow(n) with n different from the
\* current count, the grid size, and with it the delegate's item size, is
\* the size computed from n and the current viewport width.
C33_RecomputedForItemsPerRow ==
    [][view'.items_per_row # view.items_per_row
          => /\ view'.grid_size = ComputedGridSize(view'.viewport_width,
                                                   view'.items_per_row)
             /\ item_size' = view'.grid_size]_vars

\* C34 (as claimed): at most one model-data update is in progress: between
\* a call of updateModelData and the onUpdateEnd of that update no second
\* updateModelData starts, whether from the update button, from the delayed
\* automatic update, or after a database error re-enabled the button.
C34_OneUpdateAtATime ==
    db.started - db.ended <= 1

\* the pages of p are the first pages of q, in the same order
IsPrefix(p, q) ==
    /\ Len(p) <= Len(q)
    /\ \A n \in 1..Len(p) : p[n] = q[n]

\* C35: the timestamp is written, and updateComplete emitted, only after
\* every page that onPageReady handed to the worker before
\* onProviderUpdateEnd has been processed by insertPage; pages are processed
\* in the order they were handed over, each at most once.
C35_TimestampAfterPages ==
    /\ IsPrefix(db.processed, db.handed)
    /\ \A n \in 1..Len(db.stamps) : db.stamps[n].processed >= db.stamps[n].after
    /\ db.ended <= Len(db.stamps)

\* C35 witness: an update of two pages has ended: both were processed
\* before the timestamp was written, and updateComplete has been emitted
C35_Witness ==
    /\ db.ended >= 1
    /\ \E n \in 1..Len(db.stamps) : db.stamps[n].after = MaxPages
    /\ Len(db.processed) = MaxPages

\* C36 (as claimed): while pages are inserted, dataUpdated is emitted at
\* most once per period of the throttle timer, however many pages became
\* ready in it: a page insert causes no emission of its own.
C36_ThrottledEmission ==
    db.period_emits <= 1

=============================================================================
